---- MODULE Spec2Model ----
(***************************************************************************)
(* Model of the Wing Chun Revolution backend (src/main.py, src/schemas.py).*)
(*                                                                         *)
(* The store is three collections of documents.  A document is a function  *)
(* from field names to values, as a Python dict / BSON document is.  An    *)
(* Optional[int] value is a set of at most one integer: {} is None and     *)
(* {7} is 7.  The float `percent` ranges over a few integral values.       *)
(* An ObjectId is the value of the generator's counter; str(ObjectId) is   *)
(* its 24-digit lower-case hexadecimal rendering.                          *)
(*                                                                         *)
(* upsert_progress is not atomic: every store operation and every clock    *)
(* read of it is a step of its own, so that the calls of different         *)
(* requests interleave as the requests of a threaded server do.            *)
(*                                                                         *)
(* The wall clock is an environment variable that never runs backwards and *)
(* may stand still between two reads.  The module `database` (db,          *)
(* create_document, get_documents) is not among the sources; its three     *)
(* operations follow section 4.2 of the specification.  MaxCalls bounds    *)
(* the handler calls of a run, MaxClock the clock, MaxLimit the `limit`    *)
(* arguments.                                                              *)
(***************************************************************************)
EXTENDS Integers, Sequences, FiniteSets, TLC

VARIABLES
    db,          \* the process-wide store handle: "None" or "connected"
    progress,    \* collection "progress": sequence of documents, store order
    video,       \* collection "video"
    forumpost,   \* collection "forumpost"
    nextOid,     \* the ObjectId generator of the store driver
    clock,       \* the wall clock read by datetime.now(timezone.utc)
    pc,          \* per request slot: position inside upsert_progress
    p,           \* per request slot: the CreateProgress model of the call
    existing,    \* per request slot: result of find_one, <<>> or <<doc>>
    data,        \* per request slot: the dict `data` built by the call
    calls,       \* number of writing handler calls started so far
    reply        \* the handler call completed last: its name, argument, outcome

vars == <<db, progress, video, forumpost, nextOid, clock, pc, p, existing,
          data, calls, reply>>

upsertVars == <<pc, p, existing, data>>

----------------------------------------------------------------------------
(* Bounds of the model *)

MaxCalls == 2
MaxClock == 1
MaxLimit == 2

(* The request slots (concurrently served requests). *)
Slots == {"r1", "r2"}
SlotRank == [r1 |-> 1, r2 |-> 2]

Users == {"u1", "u2"}
VideoIds == {"v1"}

----------------------------------------------------------------------------
(* Generic helpers on documents *)

(* dict.update / Mongo's $set: fields of s override or extend those of d. *)
Merge(d, s) ==
    [f \in (DOMAIN d) \cup (DOMAIN s) |-> IF f \in DOMAIN s THEN s[f] ELSE d[f]]

Without(d, f) == [g \in (DOMAIN d) \ {f} |-> d[g]]

HexDigits == <<"0","1","2","3","4","5","6","7","8","9","a","b","c","d","e","f">>

RECURSIVE ToHex(_, _)
ToHex(n, width) ==
    IF width = 0 THEN <<>>
    ELSE Append(ToHex(n \div 16, width - 1), HexDigits[(n % 16) + 1])

(* str(ObjectId): 12 bytes rendered as 24 hexadecimal digits. *)
ObjectIdStr(oid) == ToHex(oid, 24)

(* Indices of the documents of coll that match the exact-match filter. *)
Matching(coll, filter) ==
    {i \in 1..Len(coll) :
        \A f \in DOMAIN filter : f \in DOMAIN coll[i] /\ coll[i][f] = filter[f]}

Min(S) == CHOOSE x \in S : \A y \in S : x <= y

(* coll.find_one(filter): the first matching document in store order. *)
FindOne(coll, filter) ==
    IF Matching(coll, filter) = {} THEN <<>>
    ELSE <<coll[Min(Matching(coll, filter))]>>

(* coll.update_one({"_id": id}, {"$set": s}) *)
UpdateOneById(coll, id, s) ==
    IF Matching(coll, [_id |-> id]) = {} THEN coll
    ELSE [coll EXCEPT ![Min(Matching(coll, [_id |-> id]))] = Merge(@, s)]

(* coll.insert_one(d): the driver adds a fresh _id. *)
InsertOneDoc(coll, d, oid) == Append(coll, Merge(d, [_id |-> oid]))

----------------------------------------------------------------------------
(* Schemas *)

(* main.CreateProgress: request body -> model, defaults filled in. *)
CreateProgress(body) ==
    Merge([percent |-> 0, last_position_sec |-> {0}], body)

ProgressPercentOkNoUpper(x) == x >= 0

(* schemas.Progress field constraints. *)
ProgressPercentOk(x) == x >= 0 /\ x <= 100

ProgressPositionOk(x) == \A s \in x : s >= 0

ProgressValid(m) ==
    ProgressPercentOk(m.percent) /\ ProgressPositionOk(m.last_position_sec)

(* model_dump() of the Progress model built from a valid m. *)
ProgressDump(m) ==
    [user_id |-> m.user_id, video_id |-> m.video_id,
     percent |-> IF "percent" \in DOMAIN m THEN m.percent ELSE 0,
     last_position_sec |->
        IF "last_position_sec" \in DOMAIN m THEN m.last_position_sec ELSE {0}]

(* Request bodies of POST /api/progress: user_id and video_id are required, *)
(* percent and last_position_sec are sent or left out.                      *)
ProgressFieldInputs ==
    { <<>>,
      [percent |-> 0],
      [percent |-> 100, last_position_sec |-> {7}],
      [percent |-> -1],
      [percent |-> 101],
      [last_position_sec |-> {-1}],
      [percent |-> 101, last_position_sec |-> {-1}] }

ProgressBodies ==
    { Merge([user_id |-> u, video_id |-> v], fs) :
        u \in Users, v \in VideoIds, fs \in ProgressFieldInputs }

----------------------------------------------------------------------------
(* upsert_progress, src/main.py 107-124 *)

StoreMissingNever == FALSE

(* Line 110: db is None *)
StoreMissing == db = "None"

(* The handler is left: its locals die, the slot serves the next request. *)
Leave(s, res) ==
    /\ pc' = [pc EXCEPT ![s] = "idle"]
    /\ reply' = [op |-> "upsert_progress", arg |-> p[s], out |-> res]
    /\ p' = [p EXCEPT ![s] = <<>>]
    /\ existing' = [existing EXCEPT ![s] = <<>>]
    /\ data' = [data EXCEPT ![s] = <<>>]

(* A request is served by the first free slot. *)
FreeSlot(s) ==
    /\ pc[s] = "idle"
    /\ \A t \in Slots : pc[t] = "idle" => SlotRank[s] <= SlotRank[t]

(* Lines 108-112: the handler is entered with a CreateProgress model. *)
Enter(s, body) ==
    /\ FreeSlot(s)
    /\ calls < MaxCalls
    /\ calls' = calls + 1
    /\ IF StoreMissing
       THEN /\ reply' = [op |-> "upsert_progress",
                        arg |-> CreateProgress(body),
                        out |-> [error |-> "HTTPException", status |-> 500,
                                 detail |-> "Database not configured"]]
            /\ UNCHANGED <<pc, p>>
       ELSE /\ pc' = [pc EXCEPT ![s] = "find_one"]
            /\ p' = [p EXCEPT ![s] = CreateProgress(body)]
            /\ UNCHANGED reply
    /\ UNCHANGED <<db, progress, video, forumpost, nextOid, clock, existing,
                   data>>

FindByAllFields(s) ==
    /\ pc[s] = "find_one"
    /\ existing' = [existing EXCEPT ![s] =
          FindOne(progress, [user_id |-> p[s].user_id,
                             video_id |-> p[s].video_id,
                             percent |-> p[s].percent])]
    /\ pc' = [pc EXCEPT ![s] = "validate"]
    /\ UNCHANGED <<db, progress, video, forumpost, nextOid, clock, p, data,
                   calls, reply>>

(* Line 113 *)
Find(s) ==
    /\ pc[s] = "find_one"
    /\ existing' = [existing EXCEPT ![s] =
          FindOne(progress, [user_id |-> p[s].user_id,
                             video_id |-> p[s].video_id])]
    /\ pc' = [pc EXCEPT ![s] = "validate"]
    /\ UNCHANGED <<db, progress, video, forumpost, nextOid, clock, p, data,
                   calls, reply>>

(* The pydantic error of line 114: every offending field is named. *)
ProgressValidationError(m) ==
    [error |-> "ValidationError",
     fields |-> {f \in {"percent", "last_position_sec"} :
                    \/ f = "percent" /\ ~ProgressPercentOk(m.percent)
                    \/ f = "last_position_sec"
                         /\ ~ProgressPositionOk(m.last_position_sec)}]

(* Line 114: the Progress model built from p, then dumped *)
Validate(s) ==
    /\ pc[s] = "validate"
    /\ IF ProgressValid(p[s])
       THEN /\ data' = [data EXCEPT ![s] = ProgressDump(p[s])]
            /\ pc' = [pc EXCEPT ![s] = "stamp_updated"]
            /\ UNCHANGED <<p, existing, reply>>
       ELSE Leave(s, ProgressValidationError(p[s]))
    /\ UNCHANGED <<db, progress, video, forumpost, nextOid, clock, calls>>

StampUpdatedStale(s) ==
    /\ pc[s] = "stamp_updated"
    /\ data' = [data EXCEPT ![s] =
          Merge(@, [updated_at |-> IF existing[s] # <<>> THEN 0 ELSE clock])]
    /\ pc' = [pc EXCEPT ![s] =
          IF existing[s] # <<>> THEN "update_one" ELSE "stamp_created"]
    /\ UNCHANGED <<db, progress, video, forumpost, nextOid, clock, p, existing,
                   calls, reply>>

(* Lines 116-117 *)
StampUpdated(s) ==
    /\ pc[s] = "stamp_updated"
    /\ data' = [data EXCEPT ![s] = Merge(@, [updated_at |-> clock])]
    /\ pc' = [pc EXCEPT ![s] =
          IF existing[s] # <<>> THEN "update_one" ELSE "stamp_created"]
    /\ UNCHANGED <<db, progress, video, forumpost, nextOid, clock, p, existing,
                   calls, reply>>

UpdateOneRestamp(s) ==
    /\ pc[s] = "update_one"
    /\ progress' = UpdateOneById(progress, existing[s][1]._id,
                                 Merge(data[s], [created_at |-> clock]))
    /\ Leave(s, [id |-> ObjectIdStr(existing[s][1]._id)])
    /\ UNCHANGED <<db, video, forumpost, nextOid, clock, calls>>

UpdateOneReplace(s) ==
    /\ pc[s] = "update_one"
    /\ progress' = InsertOneDoc(
            SelectSeq(progress, LAMBDA d : d._id # existing[s][1]._id),
            Merge(existing[s][1], data[s]), nextOid)
    /\ nextOid' = nextOid + 1
    /\ Leave(s, [id |-> ObjectIdStr(nextOid)])
    /\ UNCHANGED <<db, video, forumpost, clock, calls>>

UpdateOneSentOnly(s) ==
    /\ pc[s] = "update_one"
    /\ progress' = UpdateOneById(progress, existing[s][1]._id,
            [f \in {g \in DOMAIN data[s] :
                        ~(g = "percent" /\ data[s][g] = 0)
                        /\ ~(g = "last_position_sec" /\ data[s][g] = {0})}
                |-> data[s][f]])
    /\ Leave(s, [id |-> ObjectIdStr(existing[s][1]._id)])
    /\ UNCHANGED <<db, video, forumpost, nextOid, clock, calls>>

(* Lines 118-119 *)
UpdateOne(s) ==
    /\ pc[s] = "update_one"
    /\ progress' = UpdateOneById(progress, existing[s][1]._id, data[s])
    /\ Leave(s, [id |-> ObjectIdStr(existing[s][1]._id)])
    /\ UNCHANGED <<db, video, forumpost, nextOid, clock, calls>>

(* Line 122 *)
StampCreated(s) ==
    /\ pc[s] = "stamp_created"
    /\ data' = [data EXCEPT ![s] = Merge(@, [created_at |-> clock])]
    /\ pc' = [pc EXCEPT ![s] = "insert_one"]
    /\ UNCHANGED <<db, progress, video, forumpost, nextOid, clock, p, existing,
                   calls, reply>>

InsertOneIfAbsent(s) ==
    /\ pc[s] = "insert_one"
    /\ LET found == FindOne(progress, [user_id |-> p[s].user_id,
                                       video_id |-> p[s].video_id])
       IN  IF found = <<>>
           THEN /\ progress' = InsertOneDoc(progress, data[s], nextOid)
                /\ nextOid' = nextOid + 1
                /\ Leave(s, [id |-> ObjectIdStr(nextOid)])
           ELSE /\ progress' = UpdateOneById(progress, found[1]._id, data[s])
                /\ nextOid' = nextOid
                /\ Leave(s, [id |-> ObjectIdStr(found[1]._id)])
    /\ UNCHANGED <<db, video, forumpost, clock, calls>>

(* Lines 123-124 *)
InsertOne(s) ==
    /\ pc[s] = "insert_one"
    /\ progress' = InsertOneDoc(progress, data[s], nextOid)
    /\ nextOid' = nextOid + 1
    /\ Leave(s, [id |-> ObjectIdStr(nextOid)])
    /\ UNCHANGED <<db, video, forumpost, clock, calls>>

----------------------------------------------------------------------------
(* The store gateway (module database of the repository) *)

StoreUnavailable == [error |-> "StoreUnavailable"]

(* The gateway fails when the connection was never established. *)
GatewayDown == db = "None"

(* create_document(name, record): the record's fields are inserted; the new *)
(* identifier is returned as a string.                                      *)
CreateDocument(coll, record, oid) == InsertOneDoc(coll, record, oid)

CreateDocumentResult(oid) == [id |-> ObjectIdStr(oid)]

(* get_documents(name, filter, limit): the first `limit` matching documents, *)
(* in store order.                                                          *)
GetDocuments(coll, filter, limit) ==
    LET Hit(d) == \A f \in DOMAIN filter : f \in DOMAIN d /\ d[f] = filter[f]
        hits == SelectSeq(coll, Hit)
    IN  SubSeq(hits, 1, IF Len(hits) < limit THEN Len(hits) ELSE limit)

----------------------------------------------------------------------------
(* Videos and forum posts, src/main.py 70-100 and 126-135 *)

(* main.CreateVideo: request body -> model, defaults filled in. *)
CreateVideo(body) ==
    Merge([description |-> {}, duration_sec |-> {}, level |-> "beginner",
           topics |-> <<>>, requires_plan |-> "BASIC"], body)

(* schemas.Video field constraints. *)
VideoValid(m) ==
    /\ \A d \in m.duration_sec : d >= 0
    /\ m.level \in {"beginner", "intermediate", "advanced"}
    /\ m.requires_plan \in {"BASIC", "PREMIUM", "VIP"}

VideoValidationError(m) ==
    [error |-> "ValidationError",
     fields |-> {f \in {"duration_sec", "level", "requires_plan"} :
        \/ f = "duration_sec" /\ \E d \in m.duration_sec : d < 0
        \/ f = "level" /\ m.level \notin {"beginner", "intermediate", "advanced"}
        \/ f = "requires_plan" /\ m.requires_plan \notin {"BASIC", "PREMIUM", "VIP"}}]

VideoBodies ==
    { Merge([title |-> "Siu Nim Tao", url |-> "https://cdn/snt"], fs) :
        fs \in { <<>>,
                 [level |-> "advanced", duration_sec |-> {60}],
                 [level |-> "expert"],
                 [duration_sec |-> {-1}] } }

(* main.CreateForumPost; schemas.ForumPost has the same fields and adds no  *)
(* constraint.                                                              *)
CreateForumPost(body) == Merge([topics |-> <<>>], body)

ForumPostBodies ==
    { [user_id |-> u, title |-> "Chi Sao", content |-> "..."] : u \in Users }

serialize_doc_keep(doc) ==
    IF DOMAIN doc = {} THEN doc
    ELSE IF "_id" \in DOMAIN doc
         THEN Merge(doc, [id |-> ObjectIdStr(doc._id)])
         ELSE doc

(* Lines 27-33 *)
serialize_doc(doc) ==
    IF DOMAIN doc = {} THEN doc
    ELSE IF "_id" \in DOMAIN doc
         THEN Merge(Without(doc, "_id"), [id |-> ObjectIdStr(doc._id)])
         ELSE doc

SerializeAll(docs) == [i \in 1..Len(docs) |-> serialize_doc(docs[i])]

(* A list handler: get_documents, then serialize_doc on every document.     *)
(* `out` keeps the handler's local `docs` next to the response body.        *)
ListReply(name, arg, coll, filter, limit) ==
    [op |-> name, arg |-> arg,
     out |-> IF GatewayDown THEN StoreUnavailable
             ELSE [docs |-> GetDocuments(coll, filter, limit),
                   body |-> SerializeAll(GetDocuments(coll, filter, limit))]]

(* Lines 91-94 *)
list_videos(limit) ==
    /\ calls < MaxCalls
    /\ calls' = calls + 1
    /\ reply' = ListReply("list_videos", [limit |-> limit], video, <<>>, limit)
    /\ UNCHANGED <<db, progress, video, forumpost, nextOid, clock, upsertVars>>

(* Lines 102-105 *)
get_user_progress(user_id, limit) ==
    /\ calls < MaxCalls
    /\ calls' = calls + 1
    /\ reply' = ListReply("get_user_progress",
                          [user_id |-> user_id, limit |-> limit],
                          progress, [user_id |-> user_id], limit)
    /\ UNCHANGED <<db, progress, video, forumpost, nextOid, clock, upsertVars>>

(* Lines 126-129 *)
list_posts(limit) ==
    /\ calls < MaxCalls
    /\ calls' = calls + 1
    /\ reply' = ListReply("list_posts", [limit |-> limit], forumpost, <<>>, limit)
    /\ UNCHANGED <<db, progress, video, forumpost, nextOid, clock, upsertVars>>

(* Lines 96-100: validate, then create_document("video", vid). *)
create_video(body) ==
    /\ calls < MaxCalls
    /\ calls' = calls + 1
    /\ IF ~VideoValid(CreateVideo(body))
       THEN /\ reply' = [op |-> "create_video", arg |-> CreateVideo(body),
                         out |-> VideoValidationError(CreateVideo(body))]
            /\ UNCHANGED <<video, nextOid>>
       ELSE IF GatewayDown
       THEN /\ reply' = [op |-> "create_video", arg |-> CreateVideo(body),
                         out |-> StoreUnavailable]
            /\ UNCHANGED <<video, nextOid>>
       ELSE /\ video' = CreateDocument(video, CreateVideo(body), nextOid)
            /\ nextOid' = nextOid + 1
            /\ reply' = [op |-> "create_video", arg |-> CreateVideo(body),
                         out |-> CreateDocumentResult(nextOid)]
    /\ UNCHANGED <<db, progress, forumpost, clock, upsertVars>>

(* Lines 131-135: validate, then create_document("forumpost", post). *)
create_post(body) ==
    /\ calls < MaxCalls
    /\ calls' = calls + 1
    /\ IF GatewayDown
       THEN /\ reply' = [op |-> "create_post", arg |-> CreateForumPost(body),
                         out |-> StoreUnavailable]
            /\ UNCHANGED <<forumpost, nextOid>>
       ELSE /\ forumpost' = CreateDocument(forumpost, CreateForumPost(body), nextOid)
            /\ nextOid' = nextOid + 1
            /\ reply' = [op |-> "create_post", arg |-> CreateForumPost(body),
                         out |-> CreateDocumentResult(nextOid)]
    /\ UNCHANGED <<db, progress, video, clock, upsertVars>>

(* The wall clock advances (environment). *)
Tick ==
    /\ clock < MaxClock
    /\ clock' = clock + 1
    /\ UNCHANGED <<db, progress, video, forumpost, nextOid, upsertVars, calls,
                   reply>>

----------------------------------------------------------------------------

Init ==
    /\ db \in {"None", "connected"}
    /\ progress = <<>>
    /\ video = <<>>
    /\ forumpost = <<>>
    /\ nextOid = 0
    /\ clock = 0
    /\ pc = [s \in Slots |-> "idle"]
    /\ p = [s \in Slots |-> <<>>]
    /\ existing = [s \in Slots |-> <<>>]
    /\ data = [s \in Slots |-> <<>>]
    /\ calls = 0
    /\ reply = [op |-> "", arg |-> <<>>, out |-> <<>>]

(* Every handler but the entry of upsert_progress, and the clock. *)
Rest ==
    \/ \E s \in Slots : Find(s)
    \/ \E s \in Slots : Validate(s)
    \/ \E s \in Slots : StampUpdated(s)
    \/ \E s \in Slots : UpdateOne(s)
    \/ \E s \in Slots : StampCreated(s)
    \/ \E s \in Slots : InsertOne(s)
    \/ \E body \in VideoBodies : create_video(body)
    \/ \E body \in ForumPostBodies : create_post(body)
    \/ \E limit \in 1..MaxLimit : list_videos(limit)
    \/ \E u \in Users, limit \in 1..MaxLimit : get_user_progress(u, limit)
    \/ \E limit \in 1..MaxLimit : list_posts(limit)
    \/ Tick

(* Requests are served concurrently. *)
Next ==
    \/ \E s \in Slots, body \in ProgressBodies : Enter(s, body)
    \/ Rest

Spec == Init /\ [][Next]_vars

(* upsert_progress calls do not overlap: a call starts only when no other   *)
(* call of it is under way.                                                 *)
SeqEnter(s, body) ==
    /\ \A t \in Slots : pc[t] = "idle"
    /\ Enter(s, body)

SeqNext ==
    \/ \E s \in Slots, body \in ProgressBodies : SeqEnter(s, body)
    \/ Rest

SeqSpec == Init /\ [][SeqNext]_vars

----------------------------------------------------------------------------
(* Properties *)

SamePair(d, e) == d.user_id = e.user_id /\ d.video_id = e.video_id

(* Slot s takes its update_one step / its insert_one step. *)
Updates(s) == pc[s] = "update_one" /\ pc'[s] = "idle"

Inserts(s) == pc[s] = "insert_one" /\ pc'[s] = "idle"

(* The position in coll of the document with identifier id (0: none). *)
IndexOf(coll, id) ==
    IF \E i \in 1..Len(coll) : coll[i]._id = id
    THEN CHOOSE i \in 1..Len(coll) : coll[i]._id = id
    ELSE 0

(* A record that an update has stamped after the clock moved on. *)
Restamped(d) == d.created_at < d.updated_at

(* C1: when upsert_progress calls do not overlap, the progress collection   *)
(* never holds two records for the same (user_id, video_id) pair.           *)
C1_OnePerPair ==
    \A i, j \in 1..Len(progress) :
        i # j => ~SamePair(progress[i], progress[j])

(* Two calls for one pair have completed and left a single record. *)
C1_Witness ==
    /\ Len(progress) = 1
    /\ Restamped(progress[1])
    /\ reply.op = "upsert_progress"
    /\ reply.out = [id |-> ObjectIdStr(progress[1]._id)]

(* C2: a call that found no record inserts a new record under a new         *)
(* identifier whatever the collection holds by then, so overlapping calls   *)
(* for one pair that both found nothing leave two records for the pair.     *)
C2_InsertAfterStaleFind ==
    [][\A s \in Slots : Inserts(s) =>
          /\ Len(progress') = Len(progress) + 1
          /\ SubSeq(progress', 1, Len(progress)) = progress
          /\ SamePair(progress'[Len(progress')], p[s])
          /\ \A i \in 1..Len(progress) :
                progress[i]._id # progress'[Len(progress')]._id]_vars

C2_Witness ==
    \E i, j \in 1..Len(progress) :
        /\ i # j
        /\ SamePair(progress[i], progress[j])
        /\ progress[i]._id # progress[j]._id

(* C3: the record a call is about to insert has created_at = updated_at.    *)
C3_InsertStampsEqual ==
    \A s \in Slots :
        pc[s] = "insert_one" => data[s].created_at = data[s].updated_at

(* C4 as claimed: every update makes the record's updated_at strictly later.*)
C4_UpdatedAtStrictlyLater ==
    [][\A s \in Slots : Updates(s) =>
          LET i == IndexOf(progress, existing[s][1]._id)
          IN  progress'[i].updated_at > progress[i].updated_at]_vars

(* C4 as amended: with calls that do not overlap and a clock that does not  *)
(* run backwards, an update never makes updated_at earlier, and writes the  *)
(* time the call has read.                                                  *)
C4_UpdatedAtNotEarlier ==
    [][\A s \in Slots : Updates(s) =>
          LET i == IndexOf(progress, existing[s][1]._id)
          IN  /\ i > 0
              /\ progress'[i].updated_at >= progress[i].updated_at
              /\ progress'[i].updated_at <= clock]_vars

C4_Witness ==
    \E i \in 1..Len(progress) :
        /\ Restamped(progress[i])
        /\ progress[i].updated_at = clock

(* C5: no step changes the created_at of a record of the collection, and no *)
(* step removes or reorders records.                                        *)
C5_CreatedAtSetOnce ==
    [][\A i \in 1..Len(progress) :
          /\ i <= Len(progress')
          /\ progress'[i]._id = progress[i]._id
          /\ progress'[i].created_at = progress[i].created_at]_vars

(* A record updated at a later time than it was created. *)
C5_Witness ==
    \E i \in 1..Len(progress) :
        /\ Restamped(progress[i])
        /\ progress[i].created_at = 0

(* C6: the update path returns the identifier of the record found, keeps    *)
(* every identifier and adds no record; the insert path returns the         *)
(* identifier of the record added, which no record had before.              *)
C6_ReturnsAffectedId ==
    [][\A s \in Slots :
          /\ Updates(s) =>
                /\ reply'.out = [id |-> ObjectIdStr(existing[s][1]._id)]
                /\ IndexOf(progress, existing[s][1]._id) > 0
                /\ Len(progress') = Len(progress)
                /\ \A i \in 1..Len(progress) :
                      progress'[i]._id = progress[i]._id
          /\ Inserts(s) =>
                /\ Len(progress') = Len(progress) + 1
                /\ reply'.out =
                      [id |-> ObjectIdStr(progress'[Len(progress')]._id)]
                /\ \A i \in 1..Len(progress) :
                      /\ progress[i]._id # progress'[Len(progress')]._id
                      /\ ObjectIdStr(progress[i]._id) # reply'.out.id]_vars

(* An update has answered with the identifier of the record of its pair.    *)
C6_Witness ==
    /\ reply.op = "upsert_progress"
    /\ "id" \in DOMAIN reply.out
    /\ \E i \in 1..Len(progress) :
          /\ reply.out.id = ObjectIdStr(progress[i]._id)
          /\ Restamped(progress[i])
          /\ SamePair(progress[i], reply.arg)

(* C7: after the update path, the four schema fields of the record equal    *)
(* the values of the request, a field left out counting as its default      *)
(* (percent 0, last_position_sec 0).                                        *)
C7_FullReplace ==
    [][\A s \in Slots : Updates(s) =>
          LET d == progress'[IndexOf(progress, existing[s][1]._id)]
          IN  /\ d.user_id = p[s].user_id
              /\ d.video_id = p[s].video_id
              /\ d.percent = p[s].percent
              /\ d.last_position_sec = p[s].last_position_sec
              /\ reply'.arg = p[s]]_vars

(* An update whose request left both fields out has written the defaults.  *)
C7_Witness ==
    /\ reply.op = "upsert_progress"
    /\ reply.arg.percent = 0
    /\ reply.arg.last_position_sec = {0}
    /\ \E i \in 1..Len(progress) :
          /\ reply.out = [id |-> ObjectIdStr(progress[i]._id)]
          /\ progress[i].percent = 0
          /\ progress[i].last_position_sec = {0}
          /\ Restamped(progress[i])

OutOfRange(m) ==
    \/ m.percent < 0
    \/ m.percent > 100
    \/ \E x \in m.last_position_sec : x < 0

Unavailable(r) ==
    \/ /\ r.op = "upsert_progress"
       /\ r.out = [error |-> "HTTPException", status |-> 500,
                   detail |-> "Database not configured"]
    \/ /\ r.op \in {"create_video", "create_post"}
       /\ r.out = [error |-> "StoreUnavailable"]

NothingPersisted ==
    /\ progress' = progress
    /\ video' = video
    /\ forumpost' = forumpost
    /\ db' = db

Writers == {"upsert_progress", "create_video", "create_post"}

(* C9 as claimed: without a store every upsert_progress, create_video and   *)
(* create_post call fails with the store-unavailable error, nothing is      *)
(* persisted and the store stays unavailable.                               *)
C9_AlwaysStoreUnavailable ==
    [][db = "None" =>
          /\ NothingPersisted
          /\ (calls' # calls /\ reply'.op \in Writers) => Unavailable(reply')]_vars

BadVideo(m) ==
    \/ \E d \in m.duration_sec : d < 0
    \/ m.level \notin {"beginner", "intermediate", "advanced"}
    \/ m.requires_plan \notin {"BASIC", "PREMIUM", "VIP"}

(* C9 as amended: a create_video call whose payload fails validation fails  *)
(* with the validation error instead; every other such call fails with the  *)
(* store-unavailable error; nothing is persisted and the store stays        *)
(* unavailable.                                                             *)
C9_UnavailableUnlessInvalid ==
    [][db = "None" =>
          /\ NothingPersisted
          /\ (calls' # calls /\ reply'.op \in Writers) =>
                IF reply'.op = "create_video" /\ BadVideo(reply'.arg)
                THEN reply'.out.error = "ValidationError"
                ELSE Unavailable(reply')]_vars

C9_Witness ==
    /\ db = "None"
    /\ calls >= 2
    /\ reply.op = "upsert_progress"
    /\ Unavailable(reply)
    /\ progress = <<>>

ListOps == {"list_videos", "get_user_progress", "list_posts"}

(* C10: every item of a list response is the document with _id removed and  *)
(* id holding the identifier as a string; all other fields are unchanged.   *)
C10_NoInternalId ==
    (reply.op \in ListOps /\ "body" \in DOMAIN reply.out) =>
        /\ Len(reply.out.body) = Len(reply.out.docs)
        /\ \A i \in 1..Len(reply.out.docs) :
              LET d == reply.out.docs[i]
                  item == reply.out.body[i]
              IN  /\ "_id" \notin DOMAIN item
                  /\ DOMAIN item = ((DOMAIN d) \ {"_id"}) \cup {"id"}
                  /\ item.id = ObjectIdStr(d._id)
                  /\ \A f \in (DOMAIN d) \ {"_id"} : item[f] = d[f]

C10_Witness ==
    /\ reply.op = "get_user_progress"
    /\ "body" \in DOMAIN reply.out
    /\ Len(reply.out.body) = 1
    /\ reply.out.body[1].user_id = reply.arg.user_id

====
